---------------------------- MODULE Spec2Model ----------------------------
(***************************************************************************)
(* A model of solidify: the consolidation of delimited tables by shared    *)
(* key columns (src/src/solidifier).  Indices are the 0-based offsets of   *)
(* the Rust code; a TLA+ sequence is 1-based, so data[i] of the code is    *)
(* data[i + 1] here.  Option<T> is a sequence of length 0 (None) or 1      *)
(* (Some).  A Result is a record whose error field is "none" on Ok.        *)
(***************************************************************************)
EXTENDS Integers, Sequences, FiniteSets, TLC

VARIABLES
    params,     \* Params, as get_params built them
    files,      \* the records an input file may hold (the files params.inputs name)
    pc,         \* position in solidify: "read", "ensure", "group", "consume", "done", "failed"
    sheets,     \* Vec<Sheet> of solidify
    rows,       \* match_and_merge: the flattened (RecordId) rows
    keys,       \* match_and_merge: keys[i] is the key of rows[i]
    by_key,     \* match_and_merge: the pending HashMap, a set of (key, row_sets) entries
    cursor,     \* match_and_merge: how many elements of keys the consume loop has visited
    merged,     \* match_and_merge: the output rows so far
    output,     \* the rows handed to write
    error,      \* "none", or the kind of the terminal error
    warnings,   \* the lines handed to warn, in order
    compared,   \* history: the (key, another_key) arguments of every compare_keys call
    consumed,   \* history: the keys removed from by_key, in order
    inputs,     \* history: the records read from each input file so far
    columns,    \* column resolution on its own: the key column specs
    count,      \* column resolution on its own: the column count of the sheet
    offsets,    \* column resolution on its own: normalize_column of each spec, None before
    resolved    \* column resolution on its own: the result of Sheet::new, None before

vars == <<params, files, pc, sheets, rows, keys, by_key, cursor, merged, output, error,
          warnings, compared, consumed, inputs, columns, count, offsets, resolved>>

(***************************************************************************)
(* Bounds of the model.                                                    *)
(***************************************************************************)
NumInputs == 2
MaxRows == 2
MaxCols == 2
MaxKeys == 2
MaxWarnLevel == 1
MaxCount == 5
MaxSelfRows == 3

Cells == {"x", "y"}
Fillers == {"-"}

None == <<>>
Some(v) == <<v>>

Ok(v) == [error |-> "none", value |-> v]
Err(kind) == [error |-> kind, value |-> None]

Range(s) == {s[i] : i \in DOMAIN s}

RECURSIVE Concat(_)
Concat(ss) == IF ss = <<>> THEN <<>> ELSE Head(ss) \o Concat(Tail(ss))

RECURSIVE Sum(_)
Sum(s) == IF s = <<>> THEN 0 ELSE Head(s) + Sum(Tail(s))

Max(S) == CHOOSE m \in S : \A n \in S : n <= m
Min(S) == CHOOSE m \in S : \A n \in S : m <= n

(***************************************************************************)
(* Column resolution (sheet.rs).                                           *)
(***************************************************************************)
normalize_column_swapped(col, cnt) ==
    IF col = 0
    THEN Ok(None)
    ELSE LET normalized == IF col > 0 THEN cnt + col ELSE col - 1
         IN  IF normalized \in 0..(cnt - 1)
             THEN Ok(Some(normalized))
             ELSE Err("ColumnOutOfBounds")

normalize_column(col, cnt) ==
    IF col = 0
    THEN Ok(None)
    ELSE LET normalized == IF col > 0 THEN col - 1 ELSE cnt + col
         IN  IF normalized \in 0..(cnt - 1)
             THEN Ok(Some(normalized))
             ELSE Err("ColumnOutOfBounds")

check_rectangular(data) ==
    IF data # <<>>
    THEN IF \E i \in DOMAIN data : Len(data[i]) # Len(data[1])
         THEN Err("IrregularShape")
         ELSE Ok(Len(data[1]))
    ELSE Ok(0)

columns_ordered_lax(cols, cnt) ==
    LET positive == {c \in Range(cols) : c > 0}
        negative == {c \in Range(cols) : c < 0}
    IN  (positive # {} /\ negative # {}) => Max(positive) - Min(negative) <= cnt + 1

\* the ordering test of check_convert_columns, on the specs themselves
columns_ordered(cols, cnt) ==
    LET positive == {c \in Range(cols) : c > 0}
        negative == {c \in Range(cols) : c < 0}
    IN  (positive # {} /\ negative # {}) => Max(positive) - Min(negative) <= cnt

check_convert_columns(cols, cnt) ==
    IF \E i \in DOMAIN cols : normalize_column(cols[i], cnt).error # "none"
    THEN Err("ColumnOutOfBounds")
    ELSE IF ~columns_ordered(cols, cnt)
         THEN Err("ColumnOrderingConflict")
         ELSE Ok([i \in DOMAIN cols |-> normalize_column(cols[i], cnt).value])

sorted_unsorted(original) ==
    LET RECURSIVE Values(_)
        Values(s) == IF s = <<>> THEN <<>>
                     ELSE (IF Head(s) # None THEN <<Head(s)[1]>> ELSE <<>>) \o Values(Tail(s))
    IN  Values(original)

\* KeyColumns::sorted: the Some(index) entries of original, ascending
sorted(original) ==
    LET RECURSIVE Values(_)
        Values(s) == IF s = <<>> THEN <<>>
                     ELSE (IF Head(s) # None THEN <<Head(s)[1]>> ELSE <<>>) \o Values(Tail(s))
    IN  SortSeq(Values(original), LAMBDA a, b : a < b)

KeyColumns_new(original) == [original |-> original, sorted |-> sorted(original)]

Key(value) == [kind |-> "Key", value |-> value]
NonKey(values) == [kind |-> "NonKey", values |-> values]

\* KeyColumns::split indexes data[key] and data[index]: out of range is a panic
split_panics(key_columns, data) ==
    \E i \in DOMAIN key_columns.sorted : key_columns.sorted[i] >= Len(data)

split_compact(key_columns, data) ==
    LET indices == key_columns.sorted
        from == <<-1>> \o indices
        to == indices \o <<Len(data)>>
        section(p) ==
            LET first == from[p] + 1
                width == IF to[p] > first THEN to[p] - first ELSE 0
                cells == [i \in 1..width |-> data[first + i]]
            IN  (IF from[p] >= 0 THEN <<Key(data[from[p] + 1])>> ELSE <<>>)
                \o (IF width > 0 THEN <<NonKey(cells)>> ELSE <<>>)
    IN  Concat([p \in DOMAIN from |-> section(p)])

split(key_columns, data) ==
    LET indices == key_columns.sorted
        from == <<-1>> \o indices
        to == indices \o <<Len(data)>>
        section(p) ==
            LET first == from[p] + 1
                width == IF to[p] > first THEN to[p] - first ELSE 0
                cells == [i \in 1..width |-> data[first + i]]
            IN  (IF from[p] >= 0 THEN <<Key(data[from[p] + 1])>> ELSE <<>>)
                \o <<NonKey(cells)>>
    IN  Concat([p \in DOMAIN from |-> section(p)])

Sheet_new(data, key_columns, input_index) ==
    LET column_count == check_rectangular(data)
    IN  IF column_count.error # "none"
        THEN Err(column_count.error)
        ELSE LET converted == check_convert_columns(key_columns, column_count.value)
             IN  IF converted.error # "none"
                 THEN Err(converted.error)
                 ELSE Ok([rows |-> data,
                          column_count |-> column_count.value,
                          input_index |-> input_index,
                          key_columns |-> KeyColumns_new(converted.value)])

split_empty_by_key(sheet, filler) ==
    split(sheet.key_columns, [i \in 1..sheet.column_count |-> filler])

(***************************************************************************)
(* Keys (keys.rs) and rows (sheet.rs).                                     *)
(***************************************************************************)
RecordId(input_index, row_index) == [input_index |-> input_index, row_index |-> row_index]

Data(text) == [tag |-> "Data", data |-> text]
Id(id) == [tag |-> "Id", id |-> id]

\* #[derive(PartialEq)] of KeyItem: the same variant holding equal contents
KeyItem_eq_by_row(a, b) ==
    /\ a.tag = b.tag
    /\ IF a.tag = "Data" THEN a.data = b.data ELSE a.id.row_index = b.id.row_index

KeyItem_eq(a, b) ==
    /\ a.tag = b.tag
    /\ IF a.tag = "Data" THEN a.data = b.data ELSE a.id = b.id

\* #[derive(PartialEq)] of Key: Vec equality of its items
Key_eq(a, b) ==
    /\ Len(a) = Len(b)
    /\ \A i \in DOMAIN a : KeyItem_eq(a[i], b[i])

\* SheetRow::data, the row being the RecordId of a row of sheets
SheetRow_data(row) == sheets[row.input_index + 1].rows[row.row_index + 1]

SheetRow_len(row) == Len(SheetRow_data(row))

key(row) ==
    LET original == sheets[row.input_index + 1].key_columns.original
    IN  [i \in DOMAIN original |->
            IF original[i] # None
            THEN Data(SheetRow_data(row)[original[i][1] + 1])
            ELSE Id(row)]

split_by_key(row) == split(sheets[row.input_index + 1].key_columns, SheetRow_data(row))

(***************************************************************************)
(* Similarity of keys (mod.rs).  edit_distance is the Levenshtein distance *)
(* of the two texts' characters.                                           *)
(***************************************************************************)
chars(text) ==
    CASE text = "x" -> <<"x">>
      [] text = "y" -> <<"y">>
      [] text = "-" -> <<"-">>
      [] OTHER -> <<>>

RECURSIVE edit_distance(_, _)
edit_distance(a, b) ==
    IF a = <<>> THEN Len(b)
    ELSE IF b = <<>> THEN Len(a)
    ELSE Min({edit_distance(Tail(a), b) + 1,
              edit_distance(a, Tail(b)) + 1,
              edit_distance(Tail(a), Tail(b)) + (IF Head(a) = Head(b) THEN 0 ELSE 1)})

compare_strings(a, b) == edit_distance(chars(a), chars(b))

compare_key_items(a, b) ==
    IF a.tag = "Data" /\ b.tag = "Data" THEN compare_strings(a.data, b.data) ELSE 0

\* zip stops at the shorter key
compare_keys(a, b) ==
    LET n == IF Len(a) < Len(b) THEN Len(a) ELSE Len(b)
    IN  Sum([i \in 1..n |-> compare_key_items(a[i], b[i])])

(***************************************************************************)
(* Merging (mod.rs).  An element of data is [row |-> Option<RecordId>,     *)
(* sheet |-> Sheet] for merge_row and [set |-> Vec<RecordId>, sheet |->    *)
(* Sheet] for merge.                                                       *)
(***************************************************************************)
split_of(item, prm) ==
    IF item.row # None
    THEN [sections |-> split_by_key(item.row[1]), is_filled |-> TRUE]
    ELSE [sections |-> split_empty_by_key(item.sheet, prm.filler), is_filled |-> FALSE]

\* the panics of merge_row: an index out of range in split, or the assert!
merge_row_panics(data, prm) ==
    \/ \E i \in DOMAIN data :
          split_panics(data[i].sheet.key_columns,
                       IF data[i].row # None THEN SheetRow_data(data[i].row[1])
                       ELSE [c \in 1..data[i].sheet.column_count |-> prm.filler])
    \/ \E i \in DOMAIN data :
          Len(split_of(data[i], prm).sections) # Len(split_of(data[1], prm).sections)

merge_row_every_key(data, prm) ==
    LET split_all == [i \in DOMAIN data |-> split_of(data[i], prm)]
        RECURSIVE walk(_, _)
        walk(section_index, i) ==
            IF i > Len(split_all) THEN <<>>
            ELSE LET section == split_all[i].sections[section_index]
                 IN  IF section.kind = "Key"
                     THEN <<section.value>> \o walk(section_index, i + 1)
                     ELSE section.values \o walk(section_index, i + 1)
    IN  IF split_all # <<>>
        THEN Concat([section_index \in 1..Len(split_all[1].sections) |->
                        walk(section_index, 1)])
        ELSE <<>>

merge_row(data, prm) ==
    LET split_all == [i \in DOMAIN data |-> split_of(data[i], prm)]
        RECURSIVE walk(_, _, _)
        walk(section_index, i, seen_filled) ==
            IF i > Len(split_all) THEN <<>>
            ELSE LET section == split_all[i].sections[section_index]
                 IN  IF section.kind = "Key"
                     THEN IF split_all[i].is_filled /\ ~seen_filled
                          THEN <<section.value>> \o walk(section_index, i + 1, TRUE)
                          ELSE walk(section_index, i + 1, seen_filled)
                     ELSE section.values \o walk(section_index, i + 1, seen_filled)
    IN  IF split_all # <<>>
        THEN Concat([section_index \in 1..Len(split_all[1].sections) |->
                        walk(section_index, 1, FALSE)])
        ELSE <<>>

merge_items(data, index) ==
    [i \in DOMAIN data |->
        [row |-> IF index < Len(data[i].set) THEN Some(data[i].set[index + 1]) ELSE None,
         sheet |-> data[i].sheet]]

max_length_shortest(data) ==
    IF data = <<>> THEN 0 ELSE Min({Len(data[i].set) : i \in DOMAIN data})

max_length(data) ==
    IF data = <<>> THEN 0 ELSE Max({Len(data[i].set) : i \in DOMAIN data})

merge_panics(data, prm) ==
    \E index \in 0..(max_length(data) - 1) : merge_row_panics(merge_items(data, index), prm)

merge(data, prm) ==
    [j \in 1..max_length(data) |-> merge_row(merge_items(data, j - 1), prm)]

(***************************************************************************)
(* The inputs: the command line (cli.rs) and the files' records.           *)
(***************************************************************************)
KeySpecs == (-MaxCols)..MaxCols
KeySpecLists == UNION {[1..n -> KeySpecs] : n \in 0..MaxKeys}

Records == UNION {[1..c -> Cells] : c \in 1..MaxCols}
Files == UNION {[1..n -> Records] : n \in 0..MaxRows}

\* check_similarity_warn_level of get_params
check_similarity_warn_level(level, shared_columns) ==
    level > 0 => (0 \notin Range(shared_columns) /\ shared_columns # <<>>)

ParamsSet ==
    {p \in [shared_columns : KeySpecLists,
            allow_single_column : BOOLEAN,
            allow_multi_merge : BOOLEAN,
            filler : Fillers,
            similarity_warn_level : 0..MaxWarnLevel,
            warn_unmatched : BOOLEAN] :
        check_similarity_warn_level(p.similarity_warn_level, p.shared_columns)}

\* read: the csv reader is not flexible, so records of unequal lengths are an error
read(file) ==
    IF \E i \in DOMAIN file : Len(file[i]) # Len(file[1])
    THEN Err("Read")
    ELSE Ok(file)

Idle == /\ columns = <<>>
        /\ count = 0
        /\ offsets = None
        /\ resolved = None

Init ==
    /\ params \in ParamsSet
    /\ files = Files
    /\ pc = "read"
    /\ sheets = <<>>
    /\ rows = <<>>
    /\ keys = <<>>
    /\ by_key = {}
    /\ cursor = 0
    /\ merged = <<>>
    /\ output = <<>>
    /\ error = "none"
    /\ warnings = <<>>
    /\ compared = <<>>
    /\ consumed = <<>>
    /\ inputs = <<>>
    /\ Idle

Fail(kind) == pc' = "failed" /\ error' = kind

\* solidify: one iteration of the loop over params.inputs
ReadSheet ==
    /\ pc = "read"
    /\ Len(sheets) < NumInputs
    /\ \E file \in files :
          LET data == read(file)
              sheet == Sheet_new(data.value, params.shared_columns, Len(sheets))
          IN  /\ inputs' = Append(inputs, file)
              /\ IF data.error # "none"
                 THEN Fail(data.error) /\ UNCHANGED sheets
                 ELSE IF sheet.error # "none"
                      THEN Fail(sheet.error) /\ UNCHANGED sheets
                      ELSE /\ sheets' = Append(sheets, sheet.value)
                           /\ pc' = IF Len(sheets) + 1 = NumInputs THEN "ensure" ELSE "read"
                           /\ UNCHANGED error
    /\ UNCHANGED <<params, files, rows, keys, by_key, cursor, merged, output, warnings,
                   compared, consumed, columns, count, offsets, resolved>>

ensure_proper_delimiter(shs, prm) ==
    \/ prm.allow_single_column
    \/ \E s \in DOMAIN shs : \E r \in DOMAIN shs[s].rows : Len(shs[s].rows[r]) > 1

EnsureProperDelimiter ==
    /\ pc = "ensure"
    /\ IF ensure_proper_delimiter(sheets, params)
       THEN pc' = "group" /\ UNCHANGED error
       ELSE Fail("DegenerateInput")
    /\ UNCHANGED <<params, files, sheets, rows, keys, by_key, cursor, merged, output, warnings,
                   compared, consumed, inputs, columns, count, offsets, resolved>>

\* match_and_merge: rows, each with the index of its sheet
flat_rows(shs) ==
    Concat([s \in DOMAIN shs |->
               [r \in DOMAIN shs[s].rows |->
                   [row |-> RecordId(shs[s].input_index, r - 1), sheet_index |-> s - 1]]])

\* by_key.entry(key).or_insert_with(|| vec![vec![]; sheets.len()])[sheet_index].push(row)
by_key_push(map, k, sheet_index, row, n) ==
    IF \E e \in map : Key_eq(e.key, k)
    THEN {IF Key_eq(e.key, k)
          THEN [e EXCEPT !.row_sets[sheet_index + 1] = Append(@, row)]
          ELSE e : e \in map}
    ELSE map \cup {[key |-> k,
                    row_sets |-> [s \in 1..n |-> IF s = sheet_index + 1 THEN <<row>> ELSE <<>>]]}

RECURSIVE by_key_of(_, _, _, _)
by_key_of(all_rows, all_keys, n, upto) ==
    IF upto = 0 THEN {}
    ELSE by_key_push(by_key_of(all_rows, all_keys, n, upto - 1), all_keys[upto],
                     all_rows[upto].sheet_index, all_rows[upto].row, n)

\* match_and_merge: the grouping pass
Group ==
    /\ pc = "group"
    /\ LET all_rows == flat_rows(sheets)
           all_keys == [i \in DOMAIN all_rows |-> key(all_rows[i].row)]
       IN  /\ rows' = all_rows
           /\ keys' = all_keys
           /\ by_key' = by_key_of(all_rows, all_keys, Len(sheets), Len(all_rows))
    /\ cursor' = 0
    /\ merged' = <<>>
    /\ pc' = "consume"
    /\ UNCHANGED <<params, files, sheets, output, error, warnings, compared, consumed, inputs,
                   columns, count, offsets, resolved>>

unambiguous_strict(row_sets, prm) ==
    \/ prm.allow_multi_merge
    \/ \A i \in DOMAIN row_sets : Len(row_sets[i]) <= 1

unambiguous(row_sets, prm) ==
    \/ prm.allow_multi_merge
    \/ \A i \in DOMAIN row_sets : Len(row_sets[i]) <= 1
    \/ Cardinality({i \in DOMAIN row_sets : Len(row_sets[i]) > 0}) <= 1

\* max_by_key yields the last of the largest, min_by_key the first of the smallest
unmatched_warning(row_sets, k) ==
    LET lens == {Len(row_sets[i]) : i \in DOMAIN row_sets}
        max_index == Max({i \in DOMAIN row_sets : Len(row_sets[i]) = Max(lens)})
        min_index == Min({i \in DOMAIN row_sets : Len(row_sets[i]) = Min(lens)})
    IN  [kind |-> "unmatched",
         distance |-> Max(lens) - Min(lens),
         max_records |-> Max(lens), max_input |-> max_index,
         min_records |-> Min(lens), min_input |-> min_index,
         key |-> k, another_key |-> k]

similar_warning(k, another_key) ==
    [kind |-> "similar",
     distance |-> compare_keys(k, another_key),
     max_records |-> 0, max_input |-> 0, min_records |-> 0, min_input |-> 0,
     key |-> k, another_key |-> another_key]

\* the orders in which a HashMap may yield the keys of S
Orders(S) == {o \in [1..Cardinality(S) -> S] : Range(o) = S}

compare_targets_all(pending, k) == {e.key : e \in pending} \cup Range(consumed)

compare_targets(pending, k) == {e.key : e \in pending}

\* for key in &keys: the key the loop visits after i others
next_key_backwards(i) == keys[Len(keys) - i]

next_key(i) == keys[i + 1]

\* match_and_merge: one iteration of the loop over keys
Consume ==
    /\ pc = "consume"
    /\ cursor < Len(keys)
    /\ LET k == next_key(cursor)
           found == {e \in by_key : Key_eq(e.key, k)}
       IN  IF found = {}
           THEN /\ cursor' = cursor + 1
                /\ UNCHANGED <<pc, error, by_key, merged, warnings, compared, consumed>>
           ELSE LET entry == CHOOSE e \in found : TRUE
                    row_sets == entry.row_sets
                    pending == by_key \ {entry}
                    data == [i \in DOMAIN row_sets |->
                                [set |-> row_sets[i], sheet |-> sheets[i]]]
                    unmatched ==
                        IF /\ params.warn_unmatched
                           /\ \E i \in DOMAIN row_sets : Len(row_sets[i]) # Len(row_sets[1])
                        THEN <<unmatched_warning(row_sets, k)>>
                        ELSE <<>>
                    targets == IF params.similarity_warn_level > 0
                               THEN compare_targets(pending, k)
                               ELSE {}
                IN  /\ by_key' = pending
                    /\ IF ~unambiguous(row_sets, params)
                       THEN /\ Fail("AmbiguousMerge")
                            /\ UNCHANGED <<cursor, merged, warnings, compared, consumed>>
                       ELSE IF merge_panics(data, params)
                       THEN /\ Fail("Panic")
                            /\ UNCHANGED <<cursor, merged, warnings, compared, consumed>>
                       ELSE /\ merged' = merged \o merge(data, params)
                            /\ consumed' = Append(consumed, k)
                            /\ \E order \in Orders(targets) :
                                  /\ compared' = compared \o
                                        [i \in DOMAIN order |->
                                            [key |-> k, another_key |-> order[i]]]
                                  /\ warnings' = warnings \o unmatched \o
                                        SelectSeq([i \in DOMAIN order |->
                                                      similar_warning(k, order[i])],
                                                  LAMBDA w : w.distance <=
                                                      params.similarity_warn_level)
                            /\ cursor' = cursor + 1
                            /\ UNCHANGED <<pc, error>>
    /\ UNCHANGED <<params, files, sheets, rows, keys, output, inputs, columns, count, offsets,
                   resolved>>

\* match_and_merge returns Ok(merged), which solidify hands to write
Write ==
    /\ pc = "consume"
    /\ cursor = Len(keys)
    /\ output' = merged
    /\ pc' = "done"
    /\ UNCHANGED <<params, files, sheets, rows, keys, by_key, cursor, merged, error, warnings,
                   compared, consumed, inputs, columns, count, offsets, resolved>>

Next == ReadSheet \/ EnsureProperDelimiter \/ Group \/ Consume \/ Write

Spec == Init /\ [][Next]_vars

(***************************************************************************)
(* One file supplied as every input: solidify on a source and itself.      *)
(***************************************************************************)
SelfFiles == UNION {[1..n -> Records] : n \in 0..MaxSelfRows}

SelfInit ==
    /\ params \in ParamsSet
    /\ files \in {{file} : file \in SelfFiles}
    /\ pc = "read"
    /\ sheets = <<>>
    /\ rows = <<>>
    /\ keys = <<>>
    /\ by_key = {}
    /\ cursor = 0
    /\ merged = <<>>
    /\ output = <<>>
    /\ error = "none"
    /\ warnings = <<>>
    /\ compared = <<>>
    /\ consumed = <<>>
    /\ inputs = <<>>
    /\ Idle

SelfSpec == SelfInit /\ [][Next]_vars

(***************************************************************************)
(* Column resolution on its own: Sheet::new on a sheet of count columns,   *)
(* and normalize_column on each of the specs.                              *)
(***************************************************************************)
ColumnSpecs == (-(MaxCount + 1))..(MaxCount + 1)
ColumnSpecLists == UNION {[1..n -> ColumnSpecs] : n \in 0..MaxKeys}

\* a rectangular file of cnt columns (no file holds a record without fields)
FileOfWidth(cnt) == IF cnt = 0 THEN <<>> ELSE <<[c \in 1..cnt |-> "x"]>>

ColumnsInit ==
    /\ params \in {p \in ParamsSet : p.shared_columns = <<>> /\ p.allow_single_column
                                     /\ p.allow_multi_merge /\ p.warn_unmatched}
    /\ files = {}
    /\ pc = "columns"
    /\ sheets = <<>>
    /\ rows = <<>>
    /\ keys = <<>>
    /\ by_key = {}
    /\ cursor = 0
    /\ merged = <<>>
    /\ output = <<>>
    /\ error = "none"
    /\ warnings = <<>>
    /\ compared = <<>>
    /\ consumed = <<>>
    /\ inputs = <<>>
    /\ columns \in ColumnSpecLists
    /\ count \in 0..MaxCount
    /\ offsets = None
    /\ resolved = None

NormalizeColumns ==
    /\ pc = "columns"
    /\ offsets = None
    /\ offsets' = Some([i \in DOMAIN columns |-> normalize_column(columns[i], count)])
    /\ UNCHANGED <<params, files, pc, sheets, rows, keys, by_key, cursor, merged, output, error,
                   warnings, compared, consumed, inputs, columns, count, resolved>>

NewSheet ==
    /\ pc = "columns"
    /\ resolved = None
    /\ resolved' = Some(Sheet_new(FileOfWidth(count), columns, 0))
    /\ UNCHANGED <<params, files, pc, sheets, rows, keys, by_key, cursor, merged, output, error,
                   warnings, compared, consumed, inputs, columns, count, offsets>>

ColumnsNext == NormalizeColumns \/ NewSheet

ColumnsSpec == ColumnsInit /\ [][ColumnsNext]_vars

(***************************************************************************)
(* Column resolution: the claims.                                          *)
(***************************************************************************)
\* the offset a nonzero spec stands for in a sheet of cnt columns
OffsetOf(spec, cnt) == IF spec > 0 THEN spec - 1 ELSE cnt + spec

\* C7: normalize_column maps spec 0 to no positional column, a positive spec n
\* to offset n - 1 and a negative spec n to offset count + n, and fails with
\* the out-of-bounds error exactly when that offset lies outside [0, count);
\* for count = 5, -1 gives 4, 1 gives 0 and 6 fails.
C7_NormalizeColumn ==
    offsets # None =>
        \A i \in DOMAIN columns :
            LET spec == columns[i]
                result == offsets[1][i]
                offset == OffsetOf(spec, count)
            IN  /\ spec = 0 => result = Ok(None)
                /\ spec # 0 =>
                      /\ (offset < 0 \/ offset >= count) <=>
                            result.error = "ColumnOutOfBounds"
                      /\ (offset >= 0 /\ offset < count) <=> result = Ok(Some(offset))
                /\ (count = 5 /\ spec = -1) => result = Ok(Some(4))
                /\ (count = 5 /\ spec = 1) => result = Ok(Some(0))
                /\ (count = 5 /\ spec = 6) => result.error = "ColumnOutOfBounds"

C7_Witness ==
    /\ offsets # None
    /\ count = 5
    /\ columns = <<-1, 6>>
    /\ offsets[1][1] = Ok(Some(4))
    /\ offsets[1][2].error = "ColumnOutOfBounds"

\* every spec names a column of a sheet of cnt columns, or is 0
InBounds(cols, cnt) == \A i \in DOMAIN cols : cols[i] \in (-cnt)..cnt

\* every offset of a positive spec is strictly less than every offset of a negative one
PositiveBeforeNegative(cols, cnt) ==
    \A i, j \in DOMAIN cols :
        (cols[i] > 0 /\ cols[j] < 0) => OffsetOf(cols[i], cnt) < OffsetOf(cols[j], cnt)

\* C8: for key specs that are all in bounds for the sheet, Sheet::new succeeds
\* if and only if every offset of a positive spec is strictly less than every
\* offset of a negative spec, and fails with the column-ordering error
\* otherwise; in a constructed sheet no positive-derived and negative-derived
\* key position coincide or cross.
C8_ColumnOrdering ==
    (resolved # None /\ InBounds(columns, count)) =>
        /\ resolved[1].error = "none" <=> PositiveBeforeNegative(columns, count)
        /\ resolved[1].error # "none" => resolved[1].error = "ColumnOrderingConflict"
        /\ resolved[1].error = "none" =>
              \A i, j \in DOMAIN columns :
                  (columns[i] > 0 /\ columns[j] < 0) =>
                      resolved[1].value.key_columns.original[i][1]
                          < resolved[1].value.key_columns.original[j][1]

\* a positive and a negative spec that name the same column are refused
C8_Witness ==
    /\ resolved # None
    /\ InBounds(columns, count)
    /\ \E i, j \in DOMAIN columns :
          /\ columns[i] > 0
          /\ columns[j] < 0
          /\ OffsetOf(columns[i], count) = OffsetOf(columns[j], count)
    /\ resolved[1].error = "ColumnOrderingConflict"

(***************************************************************************)
(* Consolidation: what the claims speak of, read off the sheets, the rows  *)
(* and their keys.                                                         *)
(***************************************************************************)
\* element-wise equality of two keys
SameKey(a, b) == Len(a) = Len(b) /\ \A n \in DOMAIN a : a[n] = b[n]

\* the keys in the order in which each first appears in keys
FirstEncountered ==
    LET RECURSIVE Scan(_)
        Scan(n) == IF n = 0 THEN <<>>
                   ELSE IF \E m \in 1..(n - 1) : SameKey(keys[m], keys[n])
                        THEN Scan(n - 1)
                        ELSE Append(Scan(n - 1), keys[n])
    IN  Scan(Len(keys))

\* L_i of the group of key k: the rows of source i (1-based) with that key, in row order
RowsOfSource(k, i) ==
    LET RECURSIVE Scan(_)
        Scan(n) == IF n = 0 THEN <<>>
                   ELSE IF rows[n].sheet_index = i - 1 /\ SameKey(keys[n], k)
                        THEN Append(Scan(n - 1), rows[n].row)
                        ELSE Scan(n - 1)
    IN  Scan(Len(rows))

GroupOf(k) == [i \in DOMAIN sheets |-> [set |-> RowsOfSource(k, i), sheet |-> sheets[i]]]

GroupSize(k) == Max({Len(RowsOfSource(k, i)) : i \in DOMAIN sheets})

\* the number of rows merged for the first n keys of a sequence of distinct keys
RECURSIVE RowsBefore(_, _)
RowsBefore(ks, n) == IF n = 0 THEN 0 ELSE RowsBefore(ks, n - 1) + GroupSize(ks[n])

\* the cells of source i in output row j (0-based) of the group of k: those of
\* its row L_i[j], or fillers when it has none
CellsAt(k, i, j) ==
    IF j < Len(RowsOfSource(k, i))
    THEN SheetRow_data(RowsOfSource(k, i)[j + 1])
    ELSE [c \in 1..sheets[i].column_count |-> params.filler]

\* the key positions of source i, ascending, and the first source with a real row
KeyPositions(i) == sheets[i].key_columns.sorted

FirstReal(k, j) == Min({i \in DOMAIN sheets : j < Len(RowsOfSource(k, i))})

\* the cells of source i strictly between its q-th and (q+1)-th key positions
NonKeyCells(k, i, j, q) ==
    LET pos == KeyPositions(i)
        lo == IF q = 0 THEN -1 ELSE pos[q]
        hi == IF q = Len(pos) THEN Len(CellsAt(k, i, j)) ELSE pos[q + 1]
    IN  SubSeq(CellsAt(k, i, j), lo + 2, hi)

\* output row j of the group of k, section by section: before each key position
\* every source's non-key cells in source order, then the one key value
ExpectedRow(k, j) ==
    LET nkeys == Len(KeyPositions(1))
        first == FirstReal(k, j)
    IN  Concat([p \in 1..(2 * nkeys + 1) |->
            IF p % 2 = 0
            THEN <<CellsAt(k, first, j)[KeyPositions(first)[p \div 2] + 1]>>
            ELSE Concat([i \in DOMAIN sheets |-> NonKeyCells(k, i, j, (p - 1) \div 2)])])

\* C1: every merged row holds, for each key section position, exactly one
\* value, the key cell of the first source with a real row at that index, and
\* for each non-key section position all cells of every source's non-key
\* section in source order; A=[[x,x]], B=[[x,y]] with key spec 1 gives the one
\* row [x,x,y].
C1_MergeRow ==
    LET AsExpected(g, out) ==
            \A j \in 0..(GroupSize(consumed[g]) - 1) :
                LET n == RowsBefore(consumed, g - 1) + j + 1
                IN  n \in DOMAIN out /\ out[n] = ExpectedRow(consumed[g], j)
    IN  /\ (pc = "consume" /\ consumed # <<>>) => AsExpected(Len(consumed), merged)
        /\ pc = "done" => \A g \in DOMAIN consumed : AsExpected(g, output)

C1_Witness ==
    /\ pc = "done"
    /\ inputs = << << <<"x", "x">> >>, << <<"x", "y">> >> >>
    /\ params.shared_columns = <<1>>
    /\ output = << <<"x", "x", "y">> >>

\* A=[[x,y]], B=[] and key spec 1: the second source has no rows at all
C2_Inputs ==
    /\ Len(inputs) = 2
    /\ inputs[1] = << <<"x", "y">> >>
    /\ inputs[2] = <<>>
    /\ params.shared_columns = <<1>>
    /\ params.filler = "-"

\* C2: when a source has no row for a group's key the consolidation still
\* succeeds and the merged row holds the key value once, the present sources'
\* non-key cells and the filler for each non-key cell of the absent source;
\* for A=[[x,y]], B=[] (no rows at all), key spec 1 and filler "-" the output
\* is exactly the one row [x,y,-].
C2_FillAbsentSource ==
    /\ pc = "done" =>
          \A g \in DOMAIN consumed :
              \A j \in 0..(GroupSize(consumed[g]) - 1) :
                  (\E i \in DOMAIN sheets : j >= Len(RowsOfSource(consumed[g], i))) =>
                      output[RowsBefore(consumed, g - 1) + j + 1]
                          = ExpectedRow(consumed[g], j)
    /\ C2_Inputs => /\ pc # "failed"
                    /\ pc = "done" => output = << <<"x", "y", "-">> >>

\* a group is ambiguous when two or more sources contribute rows to it and one
\* of them contributes more than one
AmbiguousGroup(k) ==
    /\ Cardinality({i \in DOMAIN sheets : Len(RowsOfSource(k, i)) > 0}) >= 2
    /\ \E i \in DOMAIN sheets : Len(RowsOfSource(k, i)) > 1

\* C3: match_and_merge fails with the ambiguous-merge error exactly when
\* multi-merge is not allowed and some key group has at least two sources
\* contributing rows, one of them more than one row; with multi-merge allowed
\* the error never occurs.
C3_AmbiguousMerge ==
    /\ error = "AmbiguousMerge" =>
          /\ pc = "failed"
          /\ ~params.allow_multi_merge
          /\ AmbiguousGroup(keys[cursor + 1])
    /\ (pc = "consume" /\ consumed # <<>>) =>
          (params.allow_multi_merge \/ ~AmbiguousGroup(consumed[Len(consumed)]))
    /\ pc = "done" =>
          (params.allow_multi_merge \/ \A n \in DOMAIN keys : ~AmbiguousGroup(keys[n]))

C3_Witness ==
    /\ pc = "failed"
    /\ error = "AmbiguousMerge"
    /\ inputs = << << <<"x", "x">>, <<"x", "y">> >>, << <<"x", "y">>, <<"x", "x">> >> >>
    /\ params.shared_columns = <<1>>

\* rows m and n (indices into rows) lie in the row sets of entry e of by_key
InEntry(e, n) ==
    \E r \in DOMAIN e.row_sets[rows[n].sheet_index + 1] :
        e.row_sets[rows[n].sheet_index + 1][r] = rows[n].row

SameGroup(m, n) == \E e \in by_key : InEntry(e, m) /\ InEntry(e, n)

\* the text of row n in its sheet's key columns, in the order of the specs
KeyTexts(n) ==
    LET data == SheetRow_data(rows[n].row)
    IN  [c \in DOMAIN params.shared_columns |->
            data[OffsetOf(params.shared_columns[c], Len(data)) + 1]]

JustGrouped == pc = "consume" /\ cursor = 0

\* C4: two rows are placed in the same group if and only if their keys are
\* element-wise equal: rows with the same text in all key columns share a group
\* whatever their other cells, and when the key specs contain 0 no two distinct
\* rows share a group.
C4_Grouping ==
    JustGrouped =>
        \A m, n \in DOMAIN rows :
            /\ SameGroup(m, n) <=> SameKey(keys[m], keys[n])
            /\ (0 \in Range(params.shared_columns) /\ m # n) => ~SameGroup(m, n)
            /\ 0 \notin Range(params.shared_columns) =>
                  (SameGroup(m, n) <=> KeyTexts(m) = KeyTexts(n))

C4_Witness ==
    /\ JustGrouped
    /\ inputs = << << <<"x", "x">> >>, << <<"x", "y">> >> >>
    /\ params.shared_columns = <<1>>
    /\ SameGroup(1, 2)

\* C5: the output of a successful consolidation is the groups' merged rows,
\* the groups in the order in which their keys first appear (sources in the
\* order supplied, rows top to bottom), the rows of a group in index order.
C5_FirstEncounteredOrder ==
    /\ pc = "consume" => consumed = SubSeq(FirstEncountered, 1, Len(consumed))
    /\ pc = "done" =>
          /\ consumed = FirstEncountered
          /\ output = Concat([g \in DOMAIN FirstEncountered |->
                                 merge(GroupOf(FirstEncountered[g]), params)])

C5_Witness ==
    /\ pc = "done"
    /\ inputs = << << <<"y", "x">>, <<"x", "x">> >>, << <<"x", "y">> >> >>
    /\ params.shared_columns = <<1>>
    /\ output = << <<"y", "x", "-">>, <<"x", "x", "y">> >>

\* the same table as every input
SelfConsolidation ==
    /\ Len(inputs) = NumInputs
    /\ \A i \in DOMAIN inputs : inputs[i] = inputs[1]
    /\ read(inputs[1]).error = "none"

Width(file) == IF file = <<>> THEN 0 ELSE Len(file[1])

\* the key specs name every column of a sheet of cnt columns
Covering(cols, cnt) ==
    /\ InBounds(cols, cnt)
    /\ {OffsetOf(cols[i], cnt) : i \in {n \in DOMAIN cols : cols[n] # 0}} = 0..(cnt - 1)

ExactlyCovering(cols, cnt) ==
    /\ Covering(cols, cnt)
    /\ Len(cols) = cnt
    /\ 0 \notin Range(cols)

DistinctRows(file) == \A m, n \in DOMAIN file : m # n => file[m] # file[n]

\* equal rows of the file lie next to each other
EqualRowsAdjacent(file) ==
    \A m, n \in DOMAIN file :
        (m < n /\ file[m] = file[n]) => \A l \in m..n : file[l] = file[m]

C9_ComparedOnce ==
    /\ \A n \in DOMAIN compared :
          \E g \in DOMAIN consumed :
              /\ SameKey(consumed[g], compared[n].key)
              /\ \A h \in 1..g : ~SameKey(consumed[h], compared[n].another_key)
    /\ \A m, n \in DOMAIN compared :
          m < n => {compared[m].key, compared[m].another_key}
                       # {compared[n].key, compared[n].another_key}

C9_Witness ==
    /\ pc = "done"
    /\ Len(consumed) = 3
    /\ Len(compared) = 3
    /\ compared[3].key = consumed[2]
    /\ compared[3].another_key = consumed[3]

\* C10: a group with row lists L_1..L_n yields exactly m = max len(L_i) rows,
\* row j built from L_i[j] for every source with j < len(L_i) and from an
\* all-filler row otherwise, so every input row is used in exactly one output
\* row and same-key rows pair by index: A=[[x,x],[x,y]], B=[[x,y],[x,x]] with
\* multi-merge gives [x,x,y], [x,y,x].
C10_MergeByIndex ==
    pc = "done" =>
        /\ Len(output) = RowsBefore(consumed, Len(consumed))
        /\ \A g \in DOMAIN consumed :
              \A j \in 0..(GroupSize(consumed[g]) - 1) :
                  output[RowsBefore(consumed, g - 1) + j + 1] =
                      merge_row([i \in DOMAIN sheets |->
                                    [row |-> IF j < Len(RowsOfSource(consumed[g], i))
                                             THEN Some(RowsOfSource(consumed[g], i)[j + 1])
                                             ELSE None,
                                     sheet |-> sheets[i]]], params)
        /\ \A n \in DOMAIN rows :
              Cardinality({gj \in (DOMAIN consumed) \X (0..Len(rows)) :
                              /\ gj[2] < Len(RowsOfSource(consumed[gj[1]],
                                                          rows[n].sheet_index + 1))
                              /\ RowsOfSource(consumed[gj[1]],
                                              rows[n].sheet_index + 1)[gj[2] + 1]
                                     = rows[n].row}) = 1

C10_Witness ==
    /\ pc = "done"
    /\ params.allow_multi_merge
    /\ inputs = << << <<"x", "x">>, <<"x", "y">> >>, << <<"x", "y">>, <<"x", "x">> >> >>
    /\ params.shared_columns = <<1>>
    /\ output = << <<"x", "x", "y">>, <<"x", "y", "x">> >>

(***************************************************************************)
(* The sections of a row: the claim.                                       *)
(***************************************************************************)
\* k: the number of non-zero key specs
NonZeroSpecs(cols) == Cardinality({i \in DOMAIN cols : cols[i] # 0})

\* the rows merge_row may split for a sheet: its real rows and its all-filler row
SplitRows(sheet, filler) ==
    Range(sheet.rows) \cup {[c \in 1..sheet.column_count |-> filler]}

\* C11: for sheets constructed from the same key specs, of whatever column
\* counts, splitting any real row or the all-filler row stays inside the row
\* and yields exactly 2k + 1 sections, k being the number of non-zero key
\* specs; so the section-count assertion of merge_row never fails, and every
\* output row of match_and_merge has the same number of cells.
C11_SectionCount ==
    /\ \A s \in DOMAIN sheets :
          \A data \in SplitRows(sheets[s], params.filler) :
              /\ ~split_panics(sheets[s].key_columns, data)
              /\ Len(split(sheets[s].key_columns, data)) =
                     2 * NonZeroSpecs(params.shared_columns) + 1
    /\ error # "Panic"
    /\ \A i, j \in DOMAIN merged : Len(merged[i]) = Len(merged[j])
    /\ \A i, j \in DOMAIN output : Len(output[i]) = Len(output[j])

\* sheets of different column counts under a key spec counted from the end,
\* two output rows, one of them built with an all-filler row
C11_Witness ==
    /\ pc = "done"
    /\ -1 \in Range(params.shared_columns)
    /\ sheets[1].column_count # sheets[2].column_count
    /\ Len(output) >= 2
    /\ \E i \in DOMAIN output : params.filler \in Range(output[i])

=============================================================================
